---- MODULE Spec2Model ----
(***************************************************************************)
(* Model of the push consumer of autodoc-push:                             *)
(*   src/app/rabbit_processor.py  RabbitProcessor                          *)
(*   src/app/models.py            BasicPush, CellMessage                   *)
(*   src/database/controller.py   DbController.get / DbController.update   *)
(*   src/database/models.py       User, OrderStatus, Order, Cell           *)
(*                                                                         *)
(* Every delivered message runs process_message as its own task.  A task   *)
(* suspends at each await (record fetch, record update, notification send, *)
(* settlement), so the steps of several in-flight messages interleave.     *)
(* Python None is the empty sequence, a present value v is <<v>>.          *)
(* The Cyrillic texts of the source are written in Latin transliteration.  *)
(***************************************************************************)
EXTENDS Integers, Sequences, FiniteSets, TLC

\* ---------------------------------------------------------------- bounds
MaxMsgs == 2
\* calls of setup_connection and of close_connection in one run
MaxSetups == 3
MaxCloses == 3
\* get_str_by_id is called with an id in -MaxId..MaxId
MaxId == 60

Msgs == 1..MaxMsgs

None == <<>>
Some(v) == <<v>>

\* ------------------------------------------- src/database/models.py
OrderStatus_NEW == 1
OrderStatus_PROCESSING == 2
OrderStatus_READY == 3
OrderStatus_DONE == 4
OrderStatus_DECLINED == 5

StatusIds == {OrderStatus_NEW, OrderStatus_PROCESSING, OrderStatus_READY, OrderStatus_DONE, OrderStatus_DECLINED}

StatusText ==
    (OrderStatus_NEW :> "Novaya") @@ (OrderStatus_PROCESSING :> "Obrabatyvaetsya")
    @@ (OrderStatus_READY :> "Gotova k vydachi") @@ (OrderStatus_DONE :> "Vypolnena")
    @@ (OrderStatus_DECLINED :> "Otmenena")

\* A lookup that falls back to the first text for an id that is no key.
get_str_by_id_Default(order_id) ==
    IF order_id \in DOMAIN StatusText THEN Some(StatusText[order_id])
    ELSE Some(StatusText[OrderStatus_NEW])

\* OrderStatus.get_str_by_id: dict.get, None for an id that is no key.
get_str_by_id(order_id) ==
    IF order_id \in DOMAIN StatusText THEN Some(StatusText[order_id]) ELSE None

\* str() of an optional value inside an f-string.
FmtOpt(o) == IF o = None THEN "None" ELSE o[1]

\* f'... {order.id} ... {OrderStatus.get_str_by_id(next_status)}'
StatusMessage(order_id, next_status) ==
    "Status zayavki No" \o ToString(order_id) \o " izmenen na "
        \o FmtOpt(get_str_by_id(next_status))

\* ------------------------------------------------- the record store
UserIds == {1, 2}

\* users.telegram_id of the user with the given id.
TelegramIdOf(uid) == 100 + uid

NoRows == <<>>

CellRow(order_id, is_open) == 7 :> [order_id |-> order_id, is_open |-> is_open]

OrderRow(status_id) ==
    99 :> [sender_id |-> 2, receiver_id |-> 1, status_id |-> status_id,
           status_changed_at |-> None]

UserRows(U) == [u \in U |-> [telegram_id |-> TelegramIdOf(u)]]

Stores(C, O, U) == [cells : C, orders : O, users : U]

\* The stores a run starts from: cell 7 holding order 99 in any status with
\* both users present, and that store with one thing missing: the cell, the
\* cell's assignment, the order, the receiver, the sender, or both users.
InitStores ==
    Stores({CellRow(Some(99), o) : o \in BOOLEAN},
           {OrderRow(s) : s \in StatusIds}, {UserRows(UserIds)})
    \cup Stores({NoRows} \cup {CellRow(None, o) : o \in BOOLEAN},
                {OrderRow(OrderStatus_READY)}, {UserRows(UserIds)})
    \cup Stores({CellRow(Some(99), FALSE)}, {NoRows}, {UserRows(UserIds)})
    \cup Stores({CellRow(Some(99), FALSE)}, {OrderRow(OrderStatus_PROCESSING)},
                {UserRows(U) : U \in (SUBSET UserIds) \ {UserIds}})

\* ------------------------------------------------ message bodies
\* A JSON value: number, string, boolean or null.
JInt(n) == [t |-> "int", i |-> n, s |-> "", b |-> FALSE]
JStr(x) == [t |-> "str", i |-> 0, s |-> x, b |-> FALSE]
JBool(x) == [t |-> "bool", i |-> 0, s |-> "", b |-> x]
JNull == [t |-> "null", i |-> 0, s |-> "", b |-> FALSE]

\* A JSON object over the keys the two models read; None is an absent key.
JsonObjects ==
    [ telegram_user_id : {None, Some(JInt(42))},
      message          : {None, Some(JStr("hi"))},
      is_cell_message  : {None, Some(JBool(TRUE)), Some(JBool(FALSE))},
      cell_id          : {None, Some(JInt(7)), Some(JNull)},
      is_sending       : {None, Some(JBool(TRUE)), Some(JBool(FALSE))} ]

EmptyObject ==
    [telegram_user_id |-> None, message |-> None, is_cell_message |-> None,
     cell_id |-> None, is_sending |-> None]

\* message.body: bytes that are no JSON text, a JSON text that is no object,
\* or a JSON object.
Bodies ==
    {[kind |-> "invalid", obj |-> EmptyObject],
     [kind |-> "nonobject", obj |-> EmptyObject]}
    \cup {[kind |-> "object", obj |-> o] : o \in JsonObjects}

NoBody == [kind |-> "none", obj |-> EmptyObject]

\* A lenient decoder that reads bytes that are no JSON text as a JSON value.
ujson_loads_Lenient(b) == [ok |-> TRUE, value |-> b]

\* ujson.loads(message.body): ValueError on bytes that are no JSON text.
ujson_loads(b) ==
    IF b.kind = "invalid" THEN [ok |-> FALSE, value |-> b]
    ELSE [ok |-> TRUE, value |-> b]

\* ------------------------------------------------ src/app/models.py
\* A required field of the given type: present and of that type.
FieldOk(o, f, type) == o[f] # None /\ o[f][1].t = type
\* An optional field with a default: absent, or present and of that type.
OptFieldOk(o, f, type) == o[f] = None \/ o[f][1].t = type

NoPush == [cls |-> "none"]

\* BasicPush with is_cell_message defaulting to True.
BasicPush_parse_obj_DefaultTrue(v) ==
    IF /\ v.kind = "object"
       /\ FieldOk(v.obj, "telegram_user_id", "int")
       /\ FieldOk(v.obj, "message", "str")
       /\ OptFieldOk(v.obj, "is_cell_message", "bool")
    THEN [ok |-> TRUE,
          push |-> [cls |-> "BasicPush",
                    telegram_user_id |-> v.obj.telegram_user_id[1].i,
                    message |-> v.obj.message[1].s,
                    is_cell_message |->
                        IF v.obj.is_cell_message = None THEN TRUE
                        ELSE v.obj.is_cell_message[1].b]]
    ELSE [ok |-> FALSE, push |-> NoPush]

\* BasicPush.parse_obj: telegram_user_id: int, message: str,
\* is_cell_message: bool = False; other keys are ignored.
BasicPush_parse_obj(v) ==
    IF /\ v.kind = "object"
       /\ FieldOk(v.obj, "telegram_user_id", "int")
       /\ FieldOk(v.obj, "message", "str")
       /\ OptFieldOk(v.obj, "is_cell_message", "bool")
    THEN [ok |-> TRUE,
          push |-> [cls |-> "BasicPush",
                    telegram_user_id |-> v.obj.telegram_user_id[1].i,
                    message |-> v.obj.message[1].s,
                    is_cell_message |->
                        IF v.obj.is_cell_message = None THEN FALSE
                        ELSE v.obj.is_cell_message[1].b]]
    ELSE [ok |-> FALSE, push |-> NoPush]

\* CellMessage.parse_obj: the BasicPush fields plus cell_id: int,
\* is_sending: bool.
CellMessage_parse_obj(v) ==
    IF /\ BasicPush_parse_obj(v).ok
       /\ FieldOk(v.obj, "cell_id", "int")
       /\ FieldOk(v.obj, "is_sending", "bool")
    THEN [ok |-> TRUE,
          push |-> [cls |-> "CellMessage",
                    telegram_user_id |-> v.obj.telegram_user_id[1].i,
                    message |-> v.obj.message[1].s,
                    is_cell_message |-> BasicPush_parse_obj(v).push.is_cell_message,
                    cell_id |-> v.obj.cell_id[1].i,
                    is_sending |-> v.obj.is_sending[1].b]]
    ELSE [ok |-> FALSE, push |-> NoPush]

\* A validation that falls back to the BasicPush when the CellMessage is
\* incomplete.
Validate_Downgrade(v) ==
    IF ~BasicPush_parse_obj(v).ok THEN [ok |-> FALSE, push |-> NoPush]
    ELSE IF BasicPush_parse_obj(v).push.is_cell_message /\ CellMessage_parse_obj(v).ok
         THEN CellMessage_parse_obj(v)
         ELSE [ok |-> TRUE,
               push |-> [BasicPush_parse_obj(v).push EXCEPT !.is_cell_message = FALSE]]

\* Lines 59-66 of process_message: parse as BasicPush, and when the flag is
\* set parse the same object again as CellMessage.
Validate(v) ==
    IF ~BasicPush_parse_obj(v).ok THEN [ok |-> FALSE, push |-> NoPush]
    ELSE IF BasicPush_parse_obj(v).push.is_cell_message
         THEN CellMessage_parse_obj(v)
         ELSE BasicPush_parse_obj(v)

\* --------------------------------------------------------- state
VARIABLES
    cells,      \* table cells:  id -> [order_id, is_open]
    orders,     \* table orders: id -> [sender_id, receiver_id, status_id, status_changed_at]
    users,      \* table users:  id -> [telegram_id]
    now,        \* the value the next datetime.now() returns
    consuming,  \* process_message is registered as the consumer of queue 'push'
    pc,         \* per delivered message: the await its task is suspended at
    body,       \* message.body
    push,       \* the validated BasicPush / CellMessage
    cell,       \* local cell of process_cell_push (None or the loaded row)
    order,      \* local order
    receiver,   \* local receiver
    sender,     \* local sender
    calls,      \* per message: the persistence and send calls made, in order
    sent,       \* per message: the calls of _sender_function (chat_id, text, ok)
    log,        \* per message: the log lines written by process_message
    settled,    \* per message: the ack / reject frames sent to the broker
    escaped,    \* per message: the exception that left process_message
    status_log, \* the committed Order updates: message, status before and after
    conns,      \* the broker connections opened so far: "open" or "closed"
    self_connection,  \* self.__connection: None or the index of a connection
    self_channel,     \* self.__channel: None or the connection it belongs to
    setup_pc,   \* the await setup_connection is suspended at, "idle" between calls
    connection, \* local connection of setup_connection
    consumers,  \* the connections on which queue.consume registered the consumer
    close_calls,      \* the number of close_connection calls made
    closed_by_call,   \* per close_connection call: the connection it closed, or None
    order_id,   \* the argument of a call of OrderStatus.get_str_by_id
    str_called, \* that call has returned
    str_result  \* what it returned

lifecycle == <<consuming, conns, self_connection, self_channel, setup_pc,
               connection, consumers, close_calls, closed_by_call>>
lookup == <<order_id, str_called, str_result>>

vars == <<cells, orders, users, now, pc, body, push, cell, order,
          receiver, sender, calls, sent, log, settled, escaped, status_log,
          lifecycle, lookup>>

store == <<cells, orders, users>>
locals == <<cell, order, receiver, sender>>

NoExc == "none"

\* ------------------------------------ src/database/controller.py
\* A lookup that drops a None filter value instead of comparing with NULL.
DbGet_DropsNullFilter(table, key) ==
    IF key # None /\ key[1] \in DOMAIN table
    THEN Some([id |-> key[1]] @@ table[key[1]])
    ELSE IF key = None /\ table # NoRows
    THEN LET k == CHOOSE k \in DOMAIN table : TRUE IN Some([id |-> k] @@ table[k])
    ELSE None

\* DbController.get(id=key): the row with that primary key, or None.
\* filter_by(id=None) is "id IS NULL", which no row satisfies.
DbGet(table, key) ==
    IF key # None /\ key[1] \in DOMAIN table
    THEN Some([id |-> key[1]] @@ table[key[1]])
    ELSE None

\* The instance after the setattr loop of DbController.update.
SetAttrs(obj, kwargs) ==
    [k \in DOMAIN obj |-> IF k \in DOMAIN kwargs THEN kwargs[k] ELSE obj[k]]

\* An update whose transaction is never committed.
DbUpdate_NoCommit(table, obj, kwargs) == table

\* An update that never writes the status column.
DbUpdate_DropsStatus(table, obj, kwargs) ==
    IF obj.id \in DOMAIN table
    THEN [table EXCEPT ![obj.id] =
            [c \in DOMAIN @ |->
                IF c \in DOMAIN kwargs /\ c # "status_id" /\ kwargs[c] # obj[c]
                THEN kwargs[c] ELSE @[c]]]
    ELSE table

\* DbController.update on a loaded instance: the committed UPDATE carries the
\* columns whose new value differs from the loaded one.
DbUpdate(table, obj, kwargs) ==
    IF obj.id \in DOMAIN table
    THEN [table EXCEPT ![obj.id] =
            [c \in DOMAIN @ |->
                IF c \in DOMAIN kwargs /\ kwargs[c] # obj[c] THEN kwargs[c] ELSE @[c]]]
    ELSE table

\* ---------------------------------- src/app/rabbit_processor.py
\* A context manager that acks whatever happened inside the block.
ProcessExit_AlwaysAck(exc) == [kind |-> "ack", requeue |-> FALSE]

\* Leaving 'async with message.process()': ack on a normal exit; on an
\* exception reject without requeue and let the exception propagate.
ProcessExit(exc) ==
    IF exc = NoExc THEN [kind |-> "ack", requeue |-> FALSE]
    ELSE [kind |-> "reject", requeue |-> FALSE]

\* A handler that swallows what the block raised.
Propagated_Swallowed(exc) == NoExc

\* The exception leaving process_message when exc left the with block.
Propagated(exc) == exc

Finish(m, exc) ==
    /\ settled' = [settled EXCEPT ![m] = Append(@, ProcessExit(exc))]
    /\ escaped' = [escaped EXCEPT ![m] = Propagated(exc)]
    /\ pc' = [pc EXCEPT ![m] = "done"]

Continue(m, next) ==
    /\ pc' = [pc EXCEPT ![m] = next]
    /\ UNCHANGED <<settled, escaped>>

Call(m, name) == calls' = [calls EXCEPT ![m] = Append(@, name)]

\* A handler that declines the order when the cell is emptied.
next_status_Declines(p) == IF p.is_sending THEN OrderStatus_READY ELSE OrderStatus_DECLINED

\* The two target statuses exchanged.
next_status_Swapped(p) == IF p.is_sending THEN OrderStatus_DONE ELSE OrderStatus_READY

\* line 82
next_status(p) == IF p.is_sending THEN OrderStatus_READY ELSE OrderStatus_DONE

\* No message has been delivered.
InitMessages ==
    /\ now = 1
    /\ status_log = <<>>
    /\ pc = [m \in Msgs |-> "idle"]
    /\ body = [m \in Msgs |-> NoBody]
    /\ push = [m \in Msgs |-> NoPush]
    /\ cell = [m \in Msgs |-> None]
    /\ order = [m \in Msgs |-> None]
    /\ receiver = [m \in Msgs |-> None]
    /\ sender = [m \in Msgs |-> None]
    /\ calls = [m \in Msgs |-> <<>>]
    /\ sent = [m \in Msgs |-> <<>>]
    /\ log = [m \in Msgs |-> <<>>]
    /\ settled = [m \in Msgs |-> <<>>]
    /\ escaped = [m \in Msgs |-> NoExc]

\* OrderStatus.get_str_by_id has not been called.
InitLookup ==
    /\ order_id = OrderStatus_NEW
    /\ str_called = FALSE
    /\ str_result = None

\* setup_connection has run to its end: one open connection, consuming.
InitConsuming ==
    /\ consuming = TRUE
    /\ conns = <<"open">>
    /\ self_connection = Some(1)
    /\ self_channel = Some(1)
    /\ setup_pc = "idle"
    /\ connection = None
    /\ consumers = {1}
    /\ close_calls = 0
    /\ closed_by_call = <<>>

\* The consumer is up and nothing has been delivered yet.
Init ==
    /\ \E s \in InitStores :
          /\ cells = s.cells
          /\ orders = s.orders
          /\ users = s.users
    /\ InitMessages
    /\ InitConsuming
    /\ InitLookup

\* process_message up to its first await (lines 52-71): decode, validate,
\* choose the handler.  Messages are delivered in queue order.
ProcessMessage(m, b) ==
    /\ consuming
    /\ pc[m] = "idle"
    /\ \A k \in Msgs : k < m => pc[k] # "idle"
    /\ body' = [body EXCEPT ![m] = b]
    /\ IF ~ujson_loads(b).ok
       THEN /\ log' = [log EXCEPT ![m] = Append(@, "Can not parse message body")]
            /\ Finish(m, NoExc)
            /\ UNCHANGED push
       ELSE IF ~Validate(ujson_loads(b).value).ok
       THEN /\ log' = [log EXCEPT ![m] = Append(@, "Can not Validate")]
            /\ Finish(m, NoExc)
            /\ UNCHANGED push
       ELSE /\ push' = [push EXCEPT ![m] = Validate(ujson_loads(b).value).push]
            /\ log' = [log EXCEPT ![m] = Append(@, "Received")]
            /\ Continue(m, IF push'[m].is_cell_message THEN "get_cell" ELSE "push")
    /\ UNCHANGED <<store, now, status_log, lifecycle, lookup, locals, calls, sent>>

\* process_push (lines 73-74).
ProcessPush(m, ok) ==
    /\ pc[m] = "push"
    /\ Call(m, "send")
    /\ sent' = [sent EXCEPT ![m] = Append(@,
                  [chat_id |-> push[m].telegram_user_id, text |-> push[m].message,
                   ok |-> ok])]
    /\ Finish(m, IF ok THEN NoExc ELSE "SendError")
    /\ UNCHANGED <<store, now, status_log, lifecycle, lookup, body, push, locals, log>>

\* line 77, and the read of cell.order_id on line 78.
GetCell(m, ok) ==
    /\ pc[m] = "get_cell"
    /\ Call(m, "Cell.get")
    /\ IF ~ok
       THEN /\ Finish(m, "DbError")
            /\ UNCHANGED cell
       ELSE /\ cell' = [cell EXCEPT ![m] = DbGet(cells, Some(push[m].cell_id))]
            /\ IF cell'[m] = None THEN Finish(m, "AttributeError")
               ELSE Continue(m, "get_order")
    /\ UNCHANGED <<store, now, status_log, lifecycle, lookup, body, push, order,
                   receiver, sender, sent, log>>

\* line 78, and the read of order.receiver_id on line 79.
GetOrder(m, ok) ==
    /\ pc[m] = "get_order"
    /\ Call(m, "Order.get")
    /\ IF ~ok
       THEN /\ Finish(m, "DbError")
            /\ UNCHANGED order
       ELSE /\ order' = [order EXCEPT ![m] = DbGet(orders, cell[m][1].order_id)]
            /\ IF order'[m] = None THEN Finish(m, "AttributeError")
               ELSE Continue(m, "get_receiver")
    /\ UNCHANGED <<store, now, status_log, lifecycle, lookup, body, push, cell, receiver, sender, sent, log>>

\* line 79: the result is not inspected here.
GetReceiver(m, ok) ==
    /\ pc[m] = "get_receiver"
    /\ Call(m, "User.get")
    /\ IF ~ok
       THEN /\ Finish(m, "DbError")
            /\ UNCHANGED receiver
       ELSE /\ receiver' = [receiver EXCEPT ![m] = DbGet(users, Some(order[m][1].receiver_id))]
            /\ Continue(m, "get_sender")
    /\ UNCHANGED <<store, now, status_log, lifecycle, lookup, body, push, cell, order, sender, sent, log>>

\* A handler that notifies before it updates.
GetSender_NotifiesFirst(m, ok) ==
    /\ pc[m] = "get_sender"
    /\ Call(m, "User.get")
    /\ IF ~ok
       THEN /\ Finish(m, "DbError")
            /\ UNCHANGED sender
       ELSE /\ sender' = [sender EXCEPT ![m] = DbGet(users, Some(order[m][1].sender_id))]
            /\ IF receiver[m] = None THEN Finish(m, "AttributeError")
               ELSE Continue(m, "send_receiver")
    /\ UNCHANGED <<store, now, status_log, lifecycle, lookup, body, push, cell, order,
                   receiver, sent, log>>

\* A handler that refuses an Order that is not being processed or ready.
GetSender_Guarded(m, ok) ==
    /\ pc[m] = "get_sender"
    /\ Call(m, "User.get")
    /\ IF ~ok
       THEN /\ Finish(m, "DbError")
            /\ UNCHANGED sender
       ELSE /\ sender' = [sender EXCEPT ![m] = DbGet(users, Some(order[m][1].sender_id))]
            /\ IF order[m][1].status_id \notin {OrderStatus_PROCESSING, OrderStatus_READY}
               THEN Finish(m, "TransitionError")
               ELSE Continue(m, IF push[m].is_sending THEN "update_order" ELSE "update_cell")
    /\ UNCHANGED <<store, now, status_log, lifecycle, lookup, body, push, cell, order,
                   receiver, sent, log>>

\* lines 80-83.
GetSender(m, ok) ==
    /\ pc[m] = "get_sender"
    /\ Call(m, "User.get")
    /\ IF ~ok
       THEN /\ Finish(m, "DbError")
            /\ UNCHANGED sender
       ELSE /\ sender' = [sender EXCEPT ![m] = DbGet(users, Some(order[m][1].sender_id))]
            /\ Continue(m, IF push[m].is_sending THEN "update_order" ELSE "update_cell")
    /\ UNCHANGED <<store, now, status_log, lifecycle, lookup, body, push, cell, order, receiver, sent, log>>

\* A Cell update that opens the cell and keeps its assignment.
UpdateCell_KeepsAssignment(m, ok) ==
    /\ pc[m] = "update_cell"
    /\ Call(m, "Cell.update")
    /\ cell' = [cell EXCEPT ![m] = Some(SetAttrs(cell[m][1], [is_open |-> TRUE]))]
    /\ IF ~ok
       THEN /\ Finish(m, "DbError")
            /\ UNCHANGED cells
       ELSE /\ cells' = DbUpdate(cells, cell[m][1], [is_open |-> TRUE])
            /\ Continue(m, "update_order")
    /\ UNCHANGED <<orders, users, now, status_log, lifecycle, lookup, body, push, order,
                   receiver, sender, sent, log>>

\* line 84.
UpdateCell(m, ok) ==
    /\ pc[m] = "update_cell"
    /\ Call(m, "Cell.update")
    /\ cell' = [cell EXCEPT ![m] =
                  Some(SetAttrs(cell[m][1], [order_id |-> None, is_open |-> TRUE]))]
    /\ IF ~ok
       THEN /\ Finish(m, "DbError")
            /\ UNCHANGED cells
       ELSE /\ cells' = DbUpdate(cells, cell[m][1], [order_id |-> None, is_open |-> TRUE])
            /\ Continue(m, "update_order")
    /\ UNCHANGED <<orders, users, now, status_log, lifecycle, lookup, body, push, order, receiver, sender, sent, log>>

\* lines 85-90, and the read of receiver.telegram_id on line 91.
UpdateOrder(m, ok) ==
    /\ pc[m] = "update_order"
    /\ Call(m, "Order.update")
    /\ now' = now + 1
    /\ order' = [order EXCEPT ![m] =
                  Some(SetAttrs(order[m][1],
                       [status_id |-> next_status(push[m]),
                        status_changed_at |-> Some(now)]))]
    /\ IF ~ok
       THEN /\ Finish(m, "DbError")
            /\ UNCHANGED <<orders, status_log>>
       ELSE /\ orders' = DbUpdate(orders, order[m][1],
                            [status_id |-> next_status(push[m]),
                             status_changed_at |-> Some(now)])
            /\ status_log' = Append(status_log,
                  [m |-> m,
                   old |-> orders[order[m][1].id].status_id,
                   new |-> orders'[order[m][1].id].status_id,
                   old_at |-> orders[order[m][1].id].status_changed_at,
                   new_at |-> orders'[order[m][1].id].status_changed_at])
            /\ IF receiver[m] = None THEN Finish(m, "AttributeError")
               ELSE Continue(m, "send_receiver")
    /\ UNCHANGED <<cells, users, lifecycle, lookup, body, push, cell, receiver, sender, sent, log>>

\* The two sends made independent: a failed first send does not stop the second.
SendReceiver_Independent(m, ok) ==
    /\ pc[m] = "send_receiver"
    /\ Call(m, "send")
    /\ sent' = [sent EXCEPT ![m] = Append(@,
                  [chat_id |-> receiver[m][1].telegram_id,
                   text |-> StatusMessage(order[m][1].id, next_status(push[m])),
                   ok |-> ok])]
    /\ IF sender[m] = None THEN Finish(m, "AttributeError")
       ELSE Continue(m, "send_sender")
    /\ UNCHANGED <<store, now, status_log, lifecycle, lookup, body, push, locals, log>>

\* line 91, and the read of sender.telegram_id on line 92.
SendReceiver(m, ok) ==
    /\ pc[m] = "send_receiver"
    /\ Call(m, "send")
    /\ sent' = [sent EXCEPT ![m] = Append(@,
                  [chat_id |-> receiver[m][1].telegram_id,
                   text |-> StatusMessage(order[m][1].id, next_status(push[m])),
                   ok |-> ok])]
    /\ IF ~ok THEN Finish(m, "SendError")
       ELSE IF sender[m] = None THEN Finish(m, "AttributeError")
       ELSE Continue(m, "send_sender")
    /\ UNCHANGED <<store, now, status_log, lifecycle, lookup, body, push, locals, log>>

\* A second send that puts the order back into the cell when it fails.
SendSender_Compensates(m, ok) ==
    /\ pc[m] = "send_sender"
    /\ Call(m, "send")
    /\ sent' = [sent EXCEPT ![m] = Append(@,
                  [chat_id |-> sender[m][1].telegram_id,
                   text |-> StatusMessage(order[m][1].id, next_status(push[m])),
                   ok |-> ok])]
    /\ Finish(m, IF ok THEN NoExc ELSE "SendError")
    /\ cells' = IF ok THEN cells
                ELSE [cells EXCEPT ![cell[m][1].id] =
                        [order_id |-> Some(order[m][1].id), is_open |-> FALSE]]
    /\ UNCHANGED <<orders, users, now, status_log, lifecycle, lookup, body, push,
                   locals, log>>

\* line 92, then the end of the with block.
SendSender(m, ok) ==
    /\ pc[m] = "send_sender"
    /\ Call(m, "send")
    /\ sent' = [sent EXCEPT ![m] = Append(@,
                  [chat_id |-> sender[m][1].telegram_id,
                   text |-> StatusMessage(order[m][1].id, next_status(push[m])),
                   ok |-> ok])]
    /\ Finish(m, IF ok THEN NoExc ELSE "SendError")
    /\ UNCHANGED <<store, now, status_log, lifecycle, lookup, body, push, locals, log>>

Next ==
    \/ \E m \in Msgs, b \in Bodies : ProcessMessage(m, b)
    \/ \E m \in Msgs, ok \in BOOLEAN : ProcessPush(m, ok)
    \/ \E m \in Msgs, ok \in BOOLEAN : GetCell(m, ok)
    \/ \E m \in Msgs, ok \in BOOLEAN : GetOrder(m, ok)
    \/ \E m \in Msgs, ok \in BOOLEAN : GetReceiver(m, ok)
    \/ \E m \in Msgs, ok \in BOOLEAN : GetSender(m, ok)
    \/ \E m \in Msgs, ok \in BOOLEAN : UpdateCell(m, ok)
    \/ \E m \in Msgs, ok \in BOOLEAN : UpdateOrder(m, ok)
    \/ \E m \in Msgs, ok \in BOOLEAN : SendReceiver(m, ok)
    \/ \E m \in Msgs, ok \in BOOLEAN : SendSender(m, ok)

Spec == Init /\ [][Next]_vars

\* ------------------------------------------ messages one at a time
\* No task of a delivered message is suspended.
NoneInFlight == \A k \in Msgs : pc[k] \in {"idle", "done"}

\* A delivery made only when the previous message has been settled.
ProcessMessageSeq(m, b) == NoneInFlight /\ ProcessMessage(m, b)

NextSeq ==
    \/ \E m \in Msgs, b \in Bodies : ProcessMessageSeq(m, b)
    \/ \E m \in Msgs, ok \in BOOLEAN : ProcessPush(m, ok)
    \/ \E m \in Msgs, ok \in BOOLEAN : GetCell(m, ok)
    \/ \E m \in Msgs, ok \in BOOLEAN : GetOrder(m, ok)
    \/ \E m \in Msgs, ok \in BOOLEAN : GetReceiver(m, ok)
    \/ \E m \in Msgs, ok \in BOOLEAN : GetSender(m, ok)
    \/ \E m \in Msgs, ok \in BOOLEAN : UpdateCell(m, ok)
    \/ \E m \in Msgs, ok \in BOOLEAN : UpdateOrder(m, ok)
    \/ \E m \in Msgs, ok \in BOOLEAN : SendReceiver(m, ok)
    \/ \E m \in Msgs, ok \in BOOLEAN : SendSender(m, ok)

SpecSeq == Init /\ [][NextSeq]_vars

\* ------------------------------------------- connection lifecycle
messages == <<cells, orders, users, now, pc, body, push, cell, order,
              receiver, sender, calls, sent, log, settled, escaped, status_log>>

Consuming(cs, reg) == \E i \in reg : cs[i] = "open"

\* After __init__ (lines 19-27): no connection, no channel.
InitConn ==
    /\ cells = CellRow(Some(99), FALSE)
    /\ orders = OrderRow(OrderStatus_PROCESSING)
    /\ users = UserRows(UserIds)
    /\ InitMessages
    /\ InitLookup
    /\ consuming = FALSE
    /\ conns = <<>>
    /\ self_connection = None
    /\ self_channel = None
    /\ setup_pc = "idle"
    /\ connection = None
    /\ consumers = {}
    /\ close_calls = 0
    /\ closed_by_call = <<>>

\* lines 30-36: connect_robust.  A failure ends the call.
SetupConnect(ok) ==
    /\ setup_pc = "idle"
    /\ Len(conns) < MaxSetups
    /\ IF ok
       THEN /\ conns' = Append(conns, "open")
            /\ connection' = Some(Len(conns) + 1)
            /\ setup_pc' = "channel"
       ELSE UNCHANGED <<conns, connection, setup_pc>>
    /\ UNCHANGED <<messages, lookup, consuming, self_connection, self_channel,
                   consumers, close_calls, closed_by_call>>

\* lines 38-42: connection.channel(), then the two assignments to self.
SetupChannel(ok) ==
    /\ setup_pc = "channel"
    /\ IF ok /\ conns[connection[1]] = "open"
       THEN /\ self_connection' = connection
            /\ self_channel' = connection
            /\ setup_pc' = "declare"
            /\ UNCHANGED connection
       ELSE /\ setup_pc' = "idle"
            /\ connection' = None
            /\ UNCHANGED <<self_connection, self_channel>>
    /\ UNCHANGED <<messages, lookup, consuming, conns, consumers, close_calls,
                   closed_by_call>>

\* line 44: channel.declare_queue('push', durable=True).
SetupDeclare(ok) ==
    /\ setup_pc = "declare"
    /\ IF ok /\ conns[connection[1]] = "open"
       THEN /\ setup_pc' = "consume"
            /\ UNCHANGED connection
       ELSE /\ setup_pc' = "idle"
            /\ connection' = None
    /\ UNCHANGED <<messages, lookup, consuming, conns, self_connection,
                   self_channel, consumers, close_calls, closed_by_call>>

\* line 45: queue.consume(self.process_message).
SetupConsume(ok) ==
    /\ setup_pc = "consume"
    /\ IF ok /\ conns[connection[1]] = "open"
       THEN consumers' = consumers \cup {connection[1]}
       ELSE UNCHANGED consumers
    /\ consuming' = Consuming(conns, consumers')
    /\ setup_pc' = "idle"
    /\ connection' = None
    /\ UNCHANGED <<messages, lookup, conns, self_connection, self_channel,
                   close_calls, closed_by_call>>

\* close_connection (lines 47-50): closes self.__connection when it is set.
CloseConnection ==
    /\ close_calls < MaxCloses
    /\ close_calls' = close_calls + 1
    /\ closed_by_call' = Append(closed_by_call, self_connection)
    /\ IF self_connection # None
       THEN conns' = [conns EXCEPT ![self_connection[1]] = "closed"]
       ELSE UNCHANGED conns
    /\ consuming' = Consuming(conns', consumers)
    /\ UNCHANGED <<messages, lookup, self_connection, self_channel, setup_pc,
                   connection, consumers>>

NextConn ==
    \/ \E ok \in BOOLEAN : SetupConnect(ok)
    \/ \E ok \in BOOLEAN : SetupChannel(ok)
    \/ \E ok \in BOOLEAN : SetupDeclare(ok)
    \/ \E ok \in BOOLEAN : SetupConsume(ok)
    \/ CloseConnection

SpecConn == InitConn /\ [][NextConn]_vars

\* ------------------------------------------ OrderStatus.get_str_by_id
IdRange == (0 - MaxId)..MaxId

InitStr ==
    /\ cells = CellRow(Some(99), FALSE)
    /\ orders = OrderRow(OrderStatus_PROCESSING)
    /\ users = UserRows(UserIds)
    /\ InitMessages
    /\ InitConsuming
    /\ order_id \in IdRange
    /\ str_called = FALSE
    /\ str_result = None

\* One call of OrderStatus.get_str_by_id(order_id).
GetStrById ==
    /\ ~str_called
    /\ str_called' = TRUE
    /\ str_result' = get_str_by_id(order_id)
    /\ UNCHANGED <<messages, lifecycle, order_id>>

NextStr == GetStrById

SpecStr == InitStr /\ [][NextStr]_vars


\* ------------------------------------------------------- helpers
Ack == [kind |-> "ack", requeue |-> FALSE]

Done(m) == pc[m] = "done"
IsCellPush(m) == push[m].cls = "CellMessage"
IsPlainPush(m) == push[m].cls = "BasicPush"
Called(m, name) == \E i \in DOMAIN calls[m] : calls[m][i] = name
Writes == {"Cell.update", "Order.update"}
Effects == Writes \cup {"send"}
NoEffect(m) == \A i \in DOMAIN calls[m] : calls[m][i] \notin Effects

\* C1 (as stated): every handled message is settled by exactly one ack,
\* whatever the outcome of its handling.
C1_AlwaysAcked == \A m \in Msgs : Done(m) => settled[m] = <<Ack>>

\* C1 (amended): a message is settled exactly once, when its handling ends,
\* and never with requeue; the settlement is an ack when process_message
\* returns (success, decode failure, validation failure) and a reject when an
\* exception leaves the handler (missing record, failed persistence call,
\* failed send).
C1_SettledOnce ==
    \A m \in Msgs :
        /\ Len(settled[m]) = IF Done(m) THEN 1 ELSE 0
        /\ \A i \in DOMAIN settled[m] : ~settled[m][i].requeue
        /\ Done(m) =>
            /\ settled[m][1].kind \in {"ack", "reject"}
            /\ settled[m][1].kind = "reject" <=>
                  \/ sent[m] # <<>> /\ ~sent[m][Len(sent[m])].ok
                  \/ escaped[m] \in {"AttributeError", "DbError"}
            /\ log[m] # <<"Received">> => settled[m][1].kind = "ack"

C1_Witness ==
    \E m \in Msgs :
        /\ Done(m) /\ IsCellPush(m)
        /\ settled[m] = <<[kind |-> "reject", requeue |-> FALSE]>>
        /\ calls[m] = <<"Cell.get">>

\* C2 (as stated): no error of a message leaves process_message.
C2_NothingEscapes == \A m \in Msgs : escaped[m] = NoExc

\* C2 (amended): decode and validation errors are handled inside
\* process_message; an error raised while dispatching (missing Cell, Order or
\* User, failed persistence call, failed send) leaves process_message; in
\* either case the consumer stays registered and the next delivered message
\* is processed.
C2_EscapeOnlyFromDispatch ==
    \A m \in Msgs :
        /\ log[m] # <<"Received">> => escaped[m] = NoExc
        /\ (sent[m] # <<>> /\ ~sent[m][Len(sent[m])].ok) => escaped[m] = "SendError"
        /\ (Done(m) /\ IsCellPush(m) /\ (cell[m] = None \/ order[m] = None))
              => escaped[m] \in {"AttributeError", "DbError"}
        /\ (Done(m) /\ IsCellPush(m) /\ order[m] # None /\ ~Called(m, "send")
              /\ order[m][1].receiver_id \notin DOMAIN users)
              => escaped[m] \in {"AttributeError", "DbError"}
        /\ escaped[m] # NoExc => /\ Done(m)
                                 /\ log[m] = <<"Received">>
                                 /\ calls[m] # <<>>
                                 /\ consuming
        /\ (Done(m) /\ m + 1 \in Msgs /\ pc[m + 1] = "idle")
              => \A b \in Bodies : ENABLED ProcessMessage(m + 1, b)

C2_Witness ==
    \E m \in Msgs :
        /\ m + 1 \in Msgs
        /\ escaped[m] = "SendError"
        /\ Done(m + 1) /\ escaped[m + 1] = NoExc /\ Len(sent[m + 1]) = 2

\* The users an order names that are not in table users.
ReceiverAbsent(m) == order[m] # None /\ order[m][1].receiver_id \notin DOMAIN users
SenderAbsent(m) == order[m] # None /\ order[m][1].sender_id \notin DOMAIN users

\* C3: a cell message whose receiver or sender User is absent fails at the
\* fetch step: it has made no Cell update, no Order update and no send.
C3_FailsAtFetch ==
    \A m \in Msgs :
        (IsCellPush(m) /\ Done(m) /\ (ReceiverAbsent(m) \/ SenderAbsent(m)))
            => /\ escaped[m] # NoExc
               /\ NoEffect(m)

\* C4 (as stated): when the send to the receiver fails, the send to the
\* sender is still attempted.
C4_SecondSendAttempted ==
    \A m \in Msgs :
        (Done(m) /\ IsCellPush(m) /\ sent[m] # <<>> /\ ~sent[m][1].ok)
            => Len(sent[m]) = 2

\* C4 (amended): the two sends are sequential: when the send to the receiver
\* fails the send to the sender is not attempted; a failure of either send
\* ends the handling of the message in an error.
C4_SequentialSends ==
    \A m \in Msgs :
        IsCellPush(m) =>
            /\ (sent[m] # <<>> /\ ~sent[m][1].ok)
                  => /\ Len(sent[m]) = 1
                     /\ Done(m)
                     /\ escaped[m] = "SendError"
            /\ (Len(sent[m]) = 2 /\ ~sent[m][2].ok)
                  => /\ sent[m][1].ok
                     /\ Done(m)
                     /\ escaped[m] = "SendError"

C4_Witness ==
    \E m \in Msgs :
        /\ IsCellPush(m) /\ Done(m)
        /\ Len(sent[m]) = 1 /\ ~sent[m][1].ok
        /\ sender[m] # None
        /\ sent[m][1].chat_id = receiver[m][1].telegram_id

\* The cell as process_cell_push fetched it (the local is rewritten by
\* Cell.update).
FetchedCell(m) == cell[m] # None /\ ~Called(m, "Cell.update")

\* C5: a cell message whose Cell is absent, whose Cell has order_id null, or
\* whose Order is absent fails: it makes no Cell or Order update and no send.
C5_MissingCellOrOrderFails ==
    \A m \in Msgs :
        /\ (IsCellPush(m) /\ pc[m] # "get_cell" /\ push[m].cell_id \notin DOMAIN cells)
              => /\ Done(m) /\ escaped[m] # NoExc
                 /\ calls[m] = <<"Cell.get">>
                 /\ sent[m] = <<>>
        /\ (IsCellPush(m) /\ pc[m] # "get_order" /\ FetchedCell(m)
              /\ \/ cell[m][1].order_id = None
                 \/ cell[m][1].order_id[1] \notin DOMAIN orders)
              => /\ Done(m) /\ escaped[m] # NoExc
                 /\ calls[m] = <<"Cell.get", "Order.get">>
                 /\ sent[m] = <<>>

C5_Witness ==
    \E m \in Msgs :
        /\ IsCellPush(m) /\ Done(m)
        /\ FetchedCell(m) /\ cell[m][1].order_id = None
        /\ escaped[m] = "AttributeError"

\* A step of the task of message m.
StepOf(m) == pc'[m] # pc[m]

\* The Order update of m commits, and no other message changed the Order's
\* status between m's fetch and this update.
OrderUpdateCommits(m) ==
    /\ pc[m] = "update_order"
    /\ pc'[m] = "send_receiver"
    /\ orders[order[m][1].id].status_id = order[m][1].status_id

HandledOk(m) == pc[m] = "send_sender" /\ pc'[m] = "done" /\ escaped'[m] = NoExc

IsObject(m) == body[m].kind = "object"
HasInt(m, f) == body[m].obj[f] # None /\ body[m].obj[f][1].t = "int"
HasStr(m, f) == body[m].obj[f] # None /\ body[m].obj[f][1].t = "str"
HasBool(m, f) == body[m].obj[f] # None /\ body[m].obj[f][1].t = "bool"
FlagSet(m) == body[m].obj.is_cell_message = Some(JBool(TRUE))
FlagClear(m) == body[m].obj.is_cell_message \in {None, Some(JBool(FALSE))}

\* C8: a valid message with is_cell_message false or absent makes exactly one
\* send(telegram_user_id, message) and no persistence call.
C8_PlainPushSendsOnce ==
    \A m \in Msgs :
        (IsObject(m) /\ HasInt(m, "telegram_user_id") /\ HasStr(m, "message")
            /\ FlagClear(m))
          => /\ pc[m] \in {"push", "done"}
             /\ Done(m) =>
                  /\ calls[m] = <<"send">>
                  /\ Len(sent[m]) = 1
                  /\ sent[m][1].chat_id = body[m].obj.telegram_user_id[1].i
                  /\ sent[m][1].text = body[m].obj.message[1].s
             /\ pc[m] = "push" => calls[m] = <<>> /\ sent[m] = <<>>
             /\ cell[m] = None /\ order[m] = None
             /\ receiver[m] = None /\ sender[m] = None

C8_Witness ==
    \E m \in Msgs :
        /\ IsObject(m) /\ FlagClear(m) /\ Done(m)
        /\ body[m].obj.cell_id # None
        /\ sent[m] = <<[chat_id |-> 42, text |-> "hi", ok |-> TRUE]>>

\* C9: a JSON object with is_cell_message=true that lacks cell_id or
\* is_sending, and any JSON object that lacks telegram_user_id or message, is
\* rejected as a whole: no send and no persistence call is made for it.
C9_IncompleteRejected ==
    \A m \in Msgs :
        (IsObject(m) /\
            \/ /\ FlagSet(m)
               /\ body[m].obj.cell_id = None \/ body[m].obj.is_sending = None
            \/ body[m].obj.telegram_user_id = None
            \/ body[m].obj.message = None)
          => /\ Done(m)
             /\ push[m] = NoPush
             /\ log[m] = <<"Can not Validate">>
             /\ calls[m] = <<>>
             /\ sent[m] = <<>>

C9_Witness ==
    \E m \in Msgs :
        /\ IsObject(m) /\ FlagSet(m) /\ Done(m)
        /\ HasInt(m, "telegram_user_id") /\ HasStr(m, "message")
        /\ body[m].obj.cell_id = None
        /\ calls[m] = <<>>

\* C10: a body that is no JSON text fails to decode and is dropped before
\* dispatch: no persistence call and no send is made for it.
C10_UndecodableDropped ==
    \A m \in Msgs :
        body[m].kind = "invalid"
          => /\ Done(m)
             /\ log[m] = <<"Can not parse message body">>
             /\ push[m] = NoPush
             /\ calls[m] = <<>>
             /\ sent[m] = <<>>

C10_Witness ==
    \E m \in Msgs : body[m].kind = "invalid" /\ Done(m) /\ calls[m] = <<>>

\* C11: an Order update changes status_changed_at if and only if it changes
\* status_id; an update to the status the Order already has leaves
\* status_changed_at untouched.
C11_ChangedAtIffStatusChanges ==
    \A i \in DOMAIN status_log :
        (status_log[i].new_at # status_log[i].old_at)
            <=> (status_log[i].new # status_log[i].old)

\* A failing step of the task of message m.
FailingStep(m) == StepOf(m) /\ pc'[m] = "done" /\ escaped'[m] # NoExc

\* C12: when the handling of a cell message fails after a Cell or Order
\* update was committed, the committed change stays in the store: the failing
\* step writes nothing back.
C12_NoRollback ==
    [][\A m \in Msgs :
        FailingStep(m) =>
            /\ cells' = cells
            /\ pc[m] # "update_order" => orders' = orders
            /\ pc[m] = "update_order" =>
                  \/ orders' = orders /\ escaped'[m] = "DbError"
                  \/ /\ status_log' # status_log
                     /\ orders'[order[m][1].id].status_changed_at = Some(now)
            /\ (Called(m, "Cell.update") /\ pc[m] # "update_cell") =>
                  /\ cells'[push[m].cell_id].order_id = None
                  /\ cells'[push[m].cell_id].is_open
            /\ pc[m] \in {"send_receiver", "send_sender"} =>
                  orders'[order[m][1].id].status_changed_at # None
    ]_vars

C12_Witness ==
    \E m \in Msgs :
        /\ IsCellPush(m) /\ ~push[m].is_sending
        /\ Done(m) /\ escaped[m] = "SendError"
        /\ Len(sent[m]) = 2
        /\ cells[7] = [order_id |-> None, is_open |-> TRUE]
        /\ orders[99].status_id = OrderStatus_DONE

\* C13: every value written to an Order's status_id is READY or DONE.
C13_OnlyReadyOrDoneWritten ==
    [][\A o \in DOMAIN orders :
        orders'[o].status_id # orders[o].status_id
            => orders'[o].status_id \in {OrderStatus_READY, OrderStatus_DONE}
    ]_vars

C13_Witness ==
    \E i \in DOMAIN status_log :
        /\ status_log[i].old = OrderStatus_NEW
        /\ status_log[i].new = OrderStatus_DONE
        /\ orders[99].status_id = OrderStatus_DONE

\* C14: a call of close_connection made while no setup_connection is running
\* leaves no broker connection open, and closes nothing when no connection
\* was ever established.
C14_CloseClosesEveryOpenConnection ==
    [][(close_calls' # close_calls /\ setup_pc = "idle") =>
          /\ \A i \in DOMAIN conns' : conns'[i] = "closed"
          /\ conns = <<>> => closed_by_call'[close_calls'] = None
    ]_vars

\* C15: get_str_by_id returns the text of each id 1..5 and None for every
\* other id.
C15_StatusTexts ==
    str_called =>
        /\ order_id = 1 => str_result = <<"Novaya">>
        /\ order_id = 2 => str_result = <<"Obrabatyvaetsya">>
        /\ order_id = 3 => str_result = <<"Gotova k vydachi">>
        /\ order_id = 4 => str_result = <<"Vypolnena">>
        /\ order_id = 5 => str_result = <<"Otmenena">>
        /\ order_id \in 1..5 => str_result # None
        /\ order_id \notin 1..5 => str_result = None

C15_Witness == str_called /\ order_id = 6 /\ str_result = None

\* The calls of process_cell_push in the order of lines 77-92.
CellPushCalls(is_sending) ==
    IF is_sending
    THEN <<"Cell.get", "Order.get", "User.get", "User.get",
           "Order.update", "send", "send">>
    ELSE <<"Cell.get", "Order.get", "User.get", "User.get",
           "Cell.update", "Order.update", "send", "send">>

IsPrefix(a, b) == Len(a) <= Len(b) /\ \A i \in DOMAIN a : a[i] = b[i]

\* C16: within one cell message the four fetches precede every write, the
\* Cell update precedes the Order update, the Order update is committed
\* before any send, and the receiver is notified before the sender; so when a
\* notification has been sent and no other message updated the Order, the
\* Order has the status the notification announces.
C16_StepsInOrder ==
    \A m \in Msgs :
        IsCellPush(m) =>
            /\ IsPrefix(calls[m], CellPushCalls(push[m].is_sending))
            /\ sent[m] # <<>> =>
                  /\ \E i \in DOMAIN status_log : status_log[i].m = m
                  /\ sent[m][1].chat_id = users[order[m][1].receiver_id].telegram_id
                  /\ (\A i \in DOMAIN status_log : status_log[i].m = m) =>
                        \A j \in DOMAIN sent[m] :
                            sent[m][j].text =
                                "Status zayavki No" \o ToString(order[m][1].id)
                                  \o " izmenen na "
                                  \o StatusText[orders[order[m][1].id].status_id]
            /\ (sent[m] # <<>> /\ ~push[m].is_sending) =>
                  cells[push[m].cell_id].order_id = None
            /\ Len(sent[m]) = 2 =>
                  /\ sent[m][1].ok
                  /\ sent[m][2].chat_id = users[order[m][1].sender_id].telegram_id

C16_Witness ==
    \E m \in Msgs :
        /\ IsCellPush(m) /\ ~push[m].is_sending
        /\ pc[m] = "send_sender"
        /\ Len(sent[m]) = 1
        /\ orders[99].status_id = OrderStatus_DONE

\* Every delivered message has finished, and none with an error.
AllFinishedOk ==
    \A m \in Msgs : pc[m] \in {"idle", "done"} /\ escaped[m] = NoExc

\* Message m released its Cell, and the Cell is still released.
Released(m) ==
    /\ IsCellPush(m)
    /\ Called(m, "Cell.update")
    /\ cells[push[m].cell_id] = [order_id |-> None, is_open |-> TRUE]

\* C17 (as stated): whatever the interleaving of the in-flight messages, once
\* all have finished successfully a Cell released by the core has left its
\* Order in DONE.
C17_ReleasedMeansDone ==
    AllFinishedOk =>
        \A m \in Msgs : Released(m) => orders[order[m][1].id].status_id = OrderStatus_DONE

\* C17 (amended): with cell messages for the same Cell in flight
\* concurrently, once all have finished successfully the Order of a released
\* Cell is READY or DONE; it is READY only when an is_sending=true message
\* that fetched the Cell before its release (it still holds the assignment)
\* committed its Order update either after the releasing message's, or
\* between the releasing message's fetch of an Order already DONE and its
\* update, which then wrote no status.
C17_ReleasedMeansReadyOrDone ==
    AllFinishedOk =>
        \A m \in Msgs :
            Released(m) =>
                LET o == order[m][1].id
                    s == orders[o].status_id
                IN  /\ s \in {OrderStatus_READY, OrderStatus_DONE}
                    /\ s = OrderStatus_READY =>
                          \E m2 \in Msgs \ {m} :
                              /\ IsCellPush(m2) /\ push[m2].is_sending
                              /\ push[m2].cell_id = push[m].cell_id
                              /\ cell[m2] # None
                              /\ cell[m2][1].order_id = Some(o)
                              /\ \E i, j \in DOMAIN status_log :
                                    /\ status_log[i].m = m
                                    /\ status_log[j].m = m2
                                    /\ \/ i < j
                                       \/ /\ j < i
                                          /\ order[m][1].status_id = OrderStatus_DONE
                                          /\ status_log[i].old = OrderStatus_READY
                                          /\ status_log[i].new = OrderStatus_READY

C17_Witness ==
    /\ AllFinishedOk
    /\ \E m \in Msgs :
          /\ Released(m)
          /\ orders[order[m][1].id].status_id = OrderStatus_READY
          /\ \E m2 \in Msgs \ {m} : Done(m2) /\ Len(sent[m2]) = 2 /\ push[m2].is_sending

\* C18: with messages handled one after another, after a cell message with
\* is_sending=false was handled successfully every later cell message for
\* that Cell fails at a fetch, with no Cell or Order update and no send; the
\* Order is not driven from DONE back to READY.
C18_ReleasedCellRejectsLater ==
    \A m1, m2 \in Msgs :
        (/\ m1 < m2
         /\ IsCellPush(m1) /\ ~push[m1].is_sending
         /\ Done(m1) /\ escaped[m1] = NoExc
         /\ IsCellPush(m2) /\ push[m2].cell_id = push[m1].cell_id)
            => /\ pc[m2] \in {"get_cell", "get_order", "done"}
               /\ NoEffect(m2)
               /\ sent[m2] = <<>>
               /\ Done(m2) => escaped[m2] # NoExc
               /\ orders[order[m1][1].id].status_id = OrderStatus_DONE
               /\ \A i \in DOMAIN status_log : status_log[i].m # m2

C18_Witness ==
    \E m1, m2 \in Msgs :
        /\ m1 < m2
        /\ IsCellPush(m1) /\ ~push[m1].is_sending
        /\ Done(m1) /\ escaped[m1] = NoExc
        /\ IsCellPush(m2) /\ push[m2].is_sending
        /\ Done(m2) /\ escaped[m2] = "AttributeError"
        /\ calls[m2] = <<"Cell.get", "Order.get">>

====
